---- MODULE Spec2Model ----
(***************************************************************************)
(* Model of src/components.py: the suspension links ControlArm and Rocker,  *)
(* the linear spring Shock and the coupled assembly LongAccel.              *)
(*                                                                         *)
(* Arithmetic.  The program computes with floating-point reals.  The model *)
(* computes exactly, on the part of the reals that quarter-turn rotations  *)
(* of integer hardpoints can produce:                                      *)
(*   - positions and rotation matrices have integer entries;               *)
(*   - an angle is a whole number of degrees (deg = TRUE) or a whole       *)
(*     number of units of pi/2 radians (deg = FALSE);                      *)
(*   - a scalar is a finite sum of terms (n/d)*sqrt(r), r squarefree, kept *)
(*     in canonical form so that equal reals are equal values, or one of   *)
(*     the two non-finite values zoo (x/0, x # 0) and nan (0/0) that the   *)
(*     symbolic number library produces instead of raising.               *)
(* "Equal" in the model therefore means "equal as real numbers"; the       *)
(* program's rounding and the root finder's tolerance are abstracted.      *)
(***************************************************************************)
EXTENDS Integers, Sequences, FiniteSets

(***************************************************************************)
(* Bounds of the model.                                                    *)
(***************************************************************************)
\* angles requested by callers range over -MaxTurn..MaxTurn quarter turns
MaxTurn == 2

\* Python's None, and the value of an attribute not assigned yet
None == <<>>
Unset == <<>>

(***************************************************************************)
(* Exact scalars.                                                          *)
(* Every operation binds its operands once (a, b range over singletons)    *)
(* before it uses them, so that an operand given as a nested expression    *)
(* is evaluated once and not once per use.                                 *)
(***************************************************************************)
Abs(i) == IF i < 0 THEN -i ELSE i

RECURSIVE Gcd(_, _)
Gcd(a, b) ==
    CHOOSE g \in {IF y = 0 THEN x ELSE Gcd(y, x % y) : x \in {a}, y \in {b}} : TRUE

\* the rational n/d (d # 0) in lowest terms with a positive denominator
Q(n, d) ==
    LET f(a, b, g) == IF b < 0 THEN [n |-> (-a) \div g, d |-> (-b) \div g]
                      ELSE [n |-> a \div g, d |-> b \div g]
    IN  CHOOSE v \in {f(w[1], w[2], Gcd(Abs(w[1]), Abs(w[2]))) : w \in {<<n, d>>}} : TRUE

QAdd(p, q) ==
    CHOOSE v \in {Q(a.n * b.d + b.n * a.d, a.d * b.d) : a \in {p}, b \in {q}} : TRUE
QMul(p, q) ==
    CHOOSE v \in {Q(a.n * b.n, a.d * b.d) : a \in {p}, b \in {q}} : TRUE
QZero == [n |-> 0, d |-> 1]

\* a finite scalar: its set of terms [r, q] meaning q * sqrt(r)
Fin(terms) == [k |-> "fin", t |-> terms]
Zoo == [k |-> "zoo", t |-> {}]
NaN == [k |-> "nan", t |-> {}]
Zero == Fin({})
IsFinite(x) == x.k = "fin"

FromInt(i) ==
    CHOOSE v \in {IF a = 0 THEN Zero ELSE Fin({[r |-> 1, q |-> [n |-> a, d |-> 1]]})
                  : a \in {i}} : TRUE

\* the largest s with s*s dividing n (n > 0)
SquarePart(n) ==
    CHOOSE s \in 1..n :
        /\ n % (s * s) = 0
        /\ \A u \in (s + 1)..n : n % (u * u) # 0

\* sqrt(n) for an integer n >= 0
Sqrt(n) ==
    LET f(a, s) == Fin({[r |-> a \div (s * s), q |-> [n |-> s, d |-> 1]]})
    IN  CHOOSE v \in {IF a = 0 THEN Zero
                      ELSE CHOOSE w \in {f(a, s) : s \in {SquarePart(a)}} : TRUE
                      : a \in {n}} : TRUE

\* the coefficient of sqrt(r) in a set of terms
Coef(terms, r) ==
    IF \E u \in terms : u.r = r THEN (CHOOSE u \in terms : u.r = r).q ELSE QZero

Neg(x) ==
    CHOOSE v \in {IF ~IsFinite(a) THEN a
                  ELSE Fin({[r |-> u.r, q |-> [n |-> -u.q.n, d |-> u.q.d]] : u \in a.t})
                  : a \in {x}} : TRUE

\* the terms of a sum, the terms with coefficient 0 dropped
AddTerms(s, t) ==
    {u \in {[r |-> r, q |-> QAdd(Coef(s, r), Coef(t, r))] :
               r \in {w.r : w \in s \cup t}} : u.q.n # 0}

AddV(x, y) ==
    IF x.k = "nan" \/ y.k = "nan" THEN NaN
    ELSE IF x.k = "zoo" /\ y.k = "zoo" THEN NaN
    ELSE IF x.k = "zoo" \/ y.k = "zoo" THEN Zoo
    ELSE Fin(AddTerms(x.t, y.t))

Add(x, y) == CHOOSE v \in {AddV(a, b) : a \in {x}, b \in {y}} : TRUE

Sub(x, y) == Add(x, Neg(y))

\* the product of two terms: sqrt(a)*sqrt(b) = g*sqrt(a*b/g^2), g = gcd(a,b)
TermMul(u, w) ==
    CHOOSE v \in {[r |-> (u.r \div g) * (w.r \div g),
                   q |-> Q(u.q.n * w.q.n * g, u.q.d * w.q.d)]
                  : g \in {Gcd(u.r, w.r)}} : TRUE

\* the sum of a set of scalars of one term each
RECURSIVE SumAll(_)
SumAll(xs) ==
    IF xs = {} THEN {}
    ELSE CHOOSE v \in {AddTerms(u.t, SumAll(xs \ {u}))
                       : u \in {CHOOSE w \in xs : TRUE}} : TRUE

MulV(x, y) ==
    IF x.k = "nan" \/ y.k = "nan" THEN NaN
    ELSE IF x.k = "zoo" \/ y.k = "zoo"
         THEN (IF x = Zero \/ y = Zero THEN NaN ELSE Zoo)
    ELSE Fin(SumAll({[a |-> u, b |-> w, t |-> {TermMul(u, w)}] :
                        u \in x.t, w \in y.t}))

Mul(x, y) == CHOOSE v \in {MulV(a, b) : a \in {x}, b \in {y}} : TRUE

\* 1/y for a scalar of one term: 1/(q*sqrt(r)) = (1/(q*r))*sqrt(r)
Recip(y) ==
    CHOOSE v \in {Fin({[r |-> u.r, q |-> Q(u.q.d, u.q.n * u.r)]}) : u \in y.t} : TRUE

\* x / y; every divisor the program forms is zero or has a single term
DivV(x, y) ==
    IF x.k = "nan" \/ y.k = "nan" THEN NaN
    ELSE IF y.k = "zoo" THEN (IF x.k = "zoo" THEN NaN ELSE Zero)
    ELSE IF y = Zero THEN (IF x = Zero THEN NaN ELSE Zoo)
    ELSE Mul(x, Recip(y))

Div(x, y) == CHOOSE v \in {DivV(a, b) : a \in {x}, b \in {y}} : TRUE

(***************************************************************************)
(* Vectors, rotation matrices and reference frames: the algebra layer that *)
(* components.py imports (Vector, RefFrame, make_rotation).                *)
(* A position is a triple of integers, a direction a triple of scalars.    *)
(***************************************************************************)
Origin == <<0, 0, 0>>

VAdd(u, w) ==
    CHOOSE v \in {<<a[1] + b[1], a[2] + b[2], a[3] + b[3]>> : a \in {u}, b \in {w}} : TRUE

\* Vector.subtract
subtract(u, w) ==
    CHOOSE v \in {<<a[1] - b[1], a[2] - b[2], a[3] - b[3]>> : a \in {u}, b \in {w}} : TRUE

Dot(u, w) ==
    CHOOSE v \in {a[1] * b[1] + a[2] * b[2] + a[3] * b[3] : a \in {u}, b \in {w}} : TRUE

\* Vector.norm
norm(u) == Sqrt(Dot(u, u))

\* Vector.unit: the zero vector divides 0 by 0
unit(u) ==
    CHOOSE v \in {<<Div(FromInt(a[1]), n), Div(FromInt(a[2]), n), Div(FromInt(a[3]), n)>>
                  : a \in {u}, n \in {norm(u)}} : TRUE

\* Vector.cross of a position with a direction
cross(p, n) ==
    CHOOSE v \in {<<Sub(Mul(FromInt(a[2]), b[3]), Mul(FromInt(a[3]), b[2])),
                    Sub(Mul(FromInt(a[3]), b[1]), Mul(FromInt(a[1]), b[3])),
                    Sub(Mul(FromInt(a[1]), b[2]), Mul(FromInt(a[2]), b[1]))>>
                  : a \in {p}, b \in {n}} : TRUE

MatVec(m, u) ==
    CHOOSE v \in {<<Dot(a[1], b), Dot(a[2], b), Dot(a[3], b)>> : a \in {m}, b \in {u}} : TRUE

\* matrix product a * b
MatMul(a, b) ==
    CHOOSE v \in {[i \in 1..3 |-> [j \in 1..3 |->
                     x[i][1] * y[1][j] + x[i][2] * y[2][j] + x[i][3] * y[3][j]]]
                  : x \in {a}, y \in {b}} : TRUE

Det(m) ==
      m[1][1] * (m[2][2] * m[3][3] - m[2][3] * m[3][2])
    - m[1][2] * (m[2][1] * m[3][3] - m[2][3] * m[3][1])
    + m[1][3] * (m[2][1] * m[3][2] - m[2][2] * m[3][1])

\* m ** -1, by the adjugate; the determinant of a rotation is 1
MatInv(m) ==
    LET nx(i) == IF i = 3 THEN 1 ELSE i + 1
        pv(i) == IF i = 1 THEN 3 ELSE i - 1
        cof(a, i, j) == a[nx(i)][nx(j)] * a[pv(i)][pv(j)]
                        - a[nx(i)][pv(j)] * a[pv(i)][nx(j)]
    IN  CHOOSE v \in {[i \in 1..3 |-> [j \in 1..3 |-> cof(a, j, i) \div d]]
                      : a \in {m}, d \in {Det(m)}} : TRUE

Identity == <<<<1, 0, 0>>, <<0, 1, 0>>, <<0, 0, 1>>>>

\* cosine and sine of q quarter turns
Cos4(q) == CASE q % 4 = 0 -> 1 [] q % 4 = 2 -> -1 [] OTHER -> 0
Sin4(q) == CASE q % 4 = 1 -> 1 [] q % 4 = 3 -> -1 [] OTHER -> 0

\* an angle in quarter turns: a is in degrees, or in units of pi/2 radians
Quarter(a, deg) == IF deg THEN a \div 90 ELSE a

\* make_rotation(a, axis, deg): the right-handed rotation about a local axis
make_rotation(a, axis, deg) ==
    CHOOSE v \in {CASE axis = "x" -> <<<<1, 0, 0>>, <<0, c, -s>>, <<0, s, c>>>>
                    [] axis = "y" -> <<<<c, 0, s>>, <<0, 1, 0>>, <<-s, 0, c>>>>
                    [] axis = "z" -> <<<<c, -s, 0>>, <<s, c, 0>>, <<0, 0, 1>>>>
                  : c \in {Cos4(Quarter(a, deg))}, s \in {Sin4(Quarter(a, deg))}} : TRUE

\* RefFrame: an orientation relative to the parent and a fixed origin in it
RefFrame(rot, org) == [rot |-> rot, org |-> org]
get_rotation(frame) == frame.rot
set_rotation(frame, rot) == [frame EXCEPT !.rot = rot]
\* RefFrame.get_coords(v, parent): local coordinates to the parent's
get_coords(frame, v) == VAdd(frame.org, MatVec(frame.rot, v))

(***************************************************************************)
(* Outcomes of a call: a value, or an exception raised.                    *)
(***************************************************************************)
Return(v) == [exc |-> "none", val |-> v]
Raise(e) == [exc |-> e, val |-> None]

(***************************************************************************)
(* class ControlArm                                                        *)
(***************************************************************************)
\* str.lower on the side markers
lower(s) == CASE s = "R" -> "r" [] s = "L" -> "l" [] OTHER -> s

\* ControlArm.__init__
ControlArm_init(rear, upright, frame, prod, side) ==
    LET si == lower(side)
    IN  IF si # "r" /\ si # "l"
        THEN Raise("ValueError")
        ELSE Return([f_l |-> Origin, r_l |-> rear, u_l |-> upright,
                     frame |-> frame, p_l |-> prod, side |-> side])

get_f_p(c) == get_coords(c.frame, c.f_l)
get_r_p(c) == get_coords(c.frame, c.r_l)
get_u_p(c) == get_coords(c.frame, c.u_l)

\* get_p_p without the check for a missing rod hardpoint
get_p_p_nocheck(c) ==
    Return(get_coords(c.frame, IF c.p_l = None THEN Origin ELSE c.p_l))

\* ControlArm.get_p_p
get_p_p(c) ==
    IF c.p_l = None
    THEN Raise("ValueError")
    ELSE Return(get_coords(c.frame, c.p_l))

\* rotate with the new rotation multiplied on the left
ControlArm_rotate_left(c, a, deg) ==
    [c EXCEPT !.frame = set_rotation(c.frame,
         MatMul(make_rotation(IF c.side = "r" THEN -a ELSE a, "x", deg),
                get_rotation(c.frame)))]

\* ControlArm.rotate: the control arm after the call
ControlArm_rotate(c, a, deg) ==
    LET a1 == IF c.side = "r" THEN -a ELSE a
        rotation_l_new == make_rotation(a1, "x", deg)
        rotation_g_l == get_rotation(c.frame)
    IN  [c EXCEPT !.frame = set_rotation(c.frame,
                                         MatMul(rotation_g_l, rotation_l_new))]

(***************************************************************************)
(* class Rocker                                                            *)
(***************************************************************************)
Rocker_init(arb, prod, shock, frame) ==
    [pi_l |-> Origin, a_l |-> arb, pr_l |-> prod, s_l |-> shock, frame |-> frame]

get_pi_p(r) == get_coords(r.frame, r.pi_l)
get_a_p(r) == get_coords(r.frame, r.a_l)
get_pr_p(r) == get_coords(r.frame, r.pr_l)
get_s_p(r) == get_coords(r.frame, r.s_l)

\* Rocker.rotate: the rocker after the call
Rocker_rotate(r, a, deg) ==
    LET rotation_l_new == make_rotation(a, "z", deg)
        rotation_g_l == get_rotation(r.frame)
    IN  [r EXCEPT !.frame = set_rotation(r.frame,
                                         MatMul(rotation_g_l, rotation_l_new))]

(***************************************************************************)
(* class Shock                                                             *)
(***************************************************************************)
Shock_init(constant, length, force) ==
    [k |-> constant, len |-> length, force |-> force]

\* Shock.get_force
get_force(sh, new_len) ==
    Add(sh.force, Mul(FromInt(sh.k), Sub(sh.len, new_len)))


(***************************************************************************)
(* class LongAccel                                                         *)
(***************************************************************************)
\* LongAccel.__make_shock: the Shock, or the exception of get_p_p
make_shock(c, r, constant, f_prod) ==
    LET length == norm(get_s_p(r))
        r_l_p == MatInv(get_rotation(r.frame))
        p_p == get_p_p(c)
        l_prod == MatVec(r_l_p, subtract(get_pr_p(r), p_p.val))
        n_prod == unit(l_prod)
        l_shock == MatVec(r_l_p, get_s_p(r))
        n_shock == unit(l_shock)
        m_prod == cross(r.pr_l, n_prod)
        m_shock == cross(r.s_l, n_shock)
        f_shock == Div(Mul(Neg(FromInt(f_prod)), m_prod[3]), m_shock[3])
    IN  IF p_p.exc # "none"
        THEN Raise(p_p.exc)
        ELSE Return(Shock_init(constant, length, f_shock))

\* LongAccel.__init__: the attributes are assigned in the order of the code,
\* so an exception leaves the later ones unset; attrs names those assigned
LongAccel_init(c, r, k, f_prod) ==
    LET l0 == [attrs |-> {"ca", "rocker"},
               shock |-> Unset, prod |-> Unset, side |-> Unset]
        l1(sh) == [l0 EXCEPT !.attrs = @ \cup {"shock"}, !.shock = sh.val]
        l2(sh, p_p) == [l1(sh) EXCEPT !.attrs = @ \cup {"prod"},
                           !.prod = norm(subtract(get_pr_p(r), p_p.val))]
        l3(sh, p_p) == [l2(sh, p_p) EXCEPT !.attrs = @ \cup {"side"},
                           !.side = c.side]
    IN  CHOOSE v \in {IF sh.exc # "none" THEN [exc |-> sh.exc, la |-> l0]
                      ELSE IF p_p.exc # "none" THEN [exc |-> p_p.exc, la |-> l1(sh)]
                      ELSE [exc |-> "none", la |-> l3(sh, p_p)]
                      : sh \in {make_shock(c, r, k, f_prod)}, p_p \in {get_p_p(c)}}
               : TRUE

\* the residual of rotate_ca's equation at rocker angle x (units of pi/2),
\* for the control arm c already rotated
eqn(c, r, l, x) ==
    LET r_l_n == make_rotation(x, "z", FALSE)
        r_p_l == get_rotation(r.frame)
        r_p_n == MatMul(r_p_l, r_l_n)
        pr_p == VAdd(get_pi_p(r), MatVec(r_p_n, r.pr_l))
        pr_len == subtract(pr_p, get_p_p(c).val)
        length == Mul(l.prod, l.prod)
    IN  Sub(FromInt(pr_len[1] * pr_len[1] + pr_len[2] * pr_len[2]
                    + pr_len[3] * pr_len[3]), length)

\* the angles of one turn, (-pi, pi], in units of pi/2
OneTurn == {-1, 0, 1, 2}

\* nsolve(eqn, x, 0.0) for the eqn of c, r, l: the outcomes of the root finder
\* seeded at x0.  A seed that is a root is returned; otherwise the iteration
\* ends at some root, or raises ValueError when the residual cannot be
\* brought to zero.
nsolve(c, r, l, x0) ==
    CHOOSE out \in
        {IF x0 \in roots THEN {Return(x0)}
         ELSE IF roots = {} THEN {Raise("ValueError")}
         ELSE {Return(x) : x \in roots}
         : roots \in {{x \in OneTurn : eqn(c, r, l, x) = Zero}}} : TRUE

\* rotate_ca without line 321: the rocker is not rotated
rotate_ca_norocker(c, r, l, a, deg) ==
    LET c1 == ControlArm_rotate(c, a, deg)
    IN  {IF sol.exc # "none"
         THEN [exc |-> sol.exc, val |-> None, ca |-> c1, rocker |-> r]
         ELSE [exc |-> "none", val |-> sol.val, ca |-> c1, rocker |-> r]
         : sol \in nsolve(c1, r, l, 0)}

\* rotate_ca taking the root finder's last iterate unverified
rotate_ca_noverify(c, r, l, a, deg) ==
    LET c1 == ControlArm_rotate(c, a, deg)
        sols == IF Raise("ValueError") \in nsolve(c1, r, l, 0)
                THEN {Return(x) : x \in OneTurn}
                ELSE nsolve(c1, r, l, 0)
    IN  {[exc |-> "none", val |-> sol.val, ca |-> c1,
          rocker |-> Rocker_rotate(r, sol.val, FALSE)] : sol \in sols}

\* rotate_ca setting the rocker's orientation to the root's rotation alone
rotate_ca_absolute(c, r, l, a, deg) ==
    LET c1 == ControlArm_rotate(c, a, deg)
    IN  {IF sol.exc # "none"
         THEN [exc |-> sol.exc, val |-> None, ca |-> c1, rocker |-> r]
         ELSE [exc |-> "none", val |-> sol.val, ca |-> c1,
               rocker |-> [r EXCEPT !.frame =
                   set_rotation(r.frame, make_rotation(sol.val, "z", FALSE))]]
         : sol \in nsolve(c1, r, l, 0)}

\* rotate_ca rotating the control arm only once the solve has succeeded
rotate_ca_atomic(c, r, l, a, deg) ==
    LET c1 == ControlArm_rotate(c, a, deg)
    IN  {IF sol.exc # "none"
         THEN [exc |-> sol.exc, val |-> None, ca |-> c, rocker |-> r]
         ELSE [exc |-> "none", val |-> sol.val, ca |-> c1,
               rocker |-> Rocker_rotate(r, sol.val, FALSE)]
         : sol \in nsolve(c1, r, l, 0)}

\* LongAccel.rotate_ca: the possible outcomes [exc, val, ca, rocker]
rotate_ca(c, r, l, a, deg) ==
    LET c1 == ControlArm_rotate(c, a, deg)
    IN  {IF sol.exc # "none"
         THEN [exc |-> sol.exc, val |-> None, ca |-> c1, rocker |-> r]
         ELSE [exc |-> "none", val |-> sol.val, ca |-> c1,
               rocker |-> Rocker_rotate(r, sol.val, FALSE)]
         : sol \in nsolve(c1, r, l, 0)}

\* get_forces with the sign of the moment balance lost
get_forces_sign(c, r, l) ==
    LET r_l_p == MatInv(get_rotation(r.frame))
        l_prod == MatVec(r_l_p, subtract(get_pr_p(r), get_p_p(c).val))
        l_shock == MatVec(r_l_p, get_s_p(r))
        m_prod == cross(r.pr_l, unit(l_prod))
        m_shock == cross(r.s_l, unit(l_shock))
        f_shock == get_force(l.shock, norm(get_s_p(r)))
    IN  <<f_shock, Div(Mul(f_shock, m_shock[3]), m_prod[3])>>

\* LongAccel.get_forces: the pair (f_shock, f_prod)
get_forces(c, r, l) ==
    LET pr_p == get_pr_p(r)
        s_p == get_s_p(r)
        r_l_p == MatInv(get_rotation(r.frame))
        l_prod == MatVec(r_l_p, subtract(pr_p, get_p_p(c).val))
        n_prod == unit(l_prod)
        l_shock == MatVec(r_l_p, s_p)
        n_shock == unit(l_shock)
        m_prod == cross(r.pr_l, n_prod)
        m_shock == cross(r.s_l, n_shock)
        length == norm(s_p)
        f_shock == get_force(l.shock, length)
        f_prod == Div(Mul(Neg(f_shock), m_shock[3]), m_prod[3])
    IN  <<f_shock, f_prod>>

\* the two moment arms get_forces and __make_shock divide by
MomentArms(c, r) ==
    LET r_l_p == MatInv(get_rotation(r.frame))
        l_prod == MatVec(r_l_p, subtract(get_pr_p(r), get_p_p(c).val))
        l_shock == MatVec(r_l_p, get_s_p(r))
    IN  [prod |-> cross(r.pr_l, unit(l_prod))[3],
         shock |-> cross(r.s_l, unit(l_shock))[3]]

(***************************************************************************)
(* The real roots of rotate_ca's equation.  With d the control arm's rod   *)
(* hardpoint in the rocker's local frame and L2 the squared rod length,    *)
(* the residual at angle x is                                              *)
(*     K2 - 2*(A*cos x + B*sin x),                                         *)
(* which has no real root when K2^2 > 4(A^2+B^2), one when they are equal  *)
(* and two otherwise (every x when A = B = K2 = 0).                        *)
(***************************************************************************)
RealRoots(c, r, L2) ==
    LET f(d, p) ==
            LET A == d[1] * p[1] + d[2] * p[2]
                B == d[2] * p[1] - d[1] * p[2]
                K2 == Dot(p, p) + Dot(d, d) - L2 - 2 * d[3] * p[3]
                disc == 4 * (A * A + B * B) - K2 * K2
            IN  [every |-> A = 0 /\ B = 0 /\ K2 = 0,
                 count |-> IF disc < 0 THEN 0 ELSE IF disc = 0 THEN 1 ELSE 2,
                 quarter |-> Cardinality({x \in 0..3 :
                                 K2 = 2 * (A * Cos4(x) + B * Sin4(x))})]
    IN  CHOOSE v \in {f(d, r.pr_l)
                      : d \in {MatVec(MatInv(r.frame.rot),
                                      subtract(get_p_p(c).val, get_pi_p(r)))}} : TRUE

\* An assembly is built only from geometries whose real roots, for every
\* quarter-turn position of the control arm, are all quarter turns: there the
\* model's root finder and the program's have the same roots to find.
RootsOnLattice(c, r) ==
    LET turned(q) == [c EXCEPT !.frame.rot =
                         MatMul(c.frame.rot, make_rotation(q, "x", FALSE))]
        ok(rr) == ~rr.every /\ rr.quarter = rr.count
    IN  \A L2 \in {Dot(subtract(get_pr_p(r), get_p_p(c).val),
                       subtract(get_pr_p(r), get_p_p(c).val))} :
           \A q \in 0..3 : \A rr \in {RealRoots(turned(q), r, L2)} : ok(rr)

(***************************************************************************)
(* The state machine.  A caller builds a control arm and a rocker.  Under  *)
(* SpecLinks it then rotates the two links directly; under Spec it builds  *)
(* the assembly from them and calls rotate_ca and get_forces in any order. *)
(***************************************************************************)
VARIABLES
    pc,         \* "start", "arm" (control arm built), "links" (rocker built),
                \* "asm" (assembly built), "failed" (LongAccel.__init__ raised)
    ca,         \* the ControlArm object, or None
    rocker,     \* the Rocker object, or None
    la,         \* the LongAccel object's own attributes, or None
    last,       \* the last call: its name, arguments, outcome and the two
                \* orientations before it
    hist        \* history: the orientations, rod length and rod force at
                \* construction, the quarter turns requested and applied since

vars == <<pc, ca, rocker, la, last, hist>>

\* inputs
Sides == {"r", "R", "l", "L", "x", ""}
Rear == <<-2, 0, 0>>
Upright == <<-1, 2, 0>>
RodPoints == {None, <<0, 1, 0>>}
CaFrames == {RefFrame(Identity, Origin),
             RefFrame(make_rotation(1, "z", FALSE), Origin)}
Arb == <<0, -1, 0>>
RockerRod == <<1, 0, 0>>
ShockPoints == {<<0, 1, 0>>, <<-1, 1, 1>>}
RockerFrames == {RefFrame(Identity, <<-1, 0, -2>>),
                 RefFrame(make_rotation(1, "y", FALSE), Origin),
                 RefFrame(make_rotation(1, "x", FALSE), <<1, 2, 0>>)}
Stiffness == {2}
RodForces == {-2, 3}
Turns == (-MaxTurn)..MaxTurn
AngleArgs == {[a |-> 90 * q, deg |-> TRUE] : q \in Turns}
             \cup {[a |-> q, deg |-> FALSE] : q \in Turns}

Call(op, a, deg, exc, ret, pre) ==
    [op |-> op, a |-> a, deg |-> deg, exc |-> exc, ret |-> ret, pre |-> pre]

\* the two links as they are before a call
Pre == [ca |-> ca, rocker |-> rocker]

\* a sum of quarter turns, kept within one full turn
Turn(q) == q % 4

Init ==
    /\ pc = "start"
    /\ ca = None
    /\ rocker = None
    /\ la = None
    /\ last = Call("none", None, None, "none", None, None)
    /\ hist = [caR0 |-> None, rkR0 |-> None, prod0 |-> None, f_prod |-> 0,
               sumC |-> 0, sumR |-> 0, sumA |-> 0, sumS |-> 0,
               rotated |-> FALSE, allOk |-> TRUE]

\* ControlArm(rear, upright, frame, prod, side)
NewControlArm ==
    /\ pc = "start"
    /\ \E side \in Sides, prod \in RodPoints, frame \in CaFrames :
         \E res \in {ControlArm_init(Rear, Upright, frame, prod, side)} :
             /\ last' = Call("ControlArm", side, None, res.exc, None, None)
             /\ IF res.exc = "none"
                THEN /\ ca' = res.val
                     /\ pc' = "arm"
                     /\ hist' = [hist EXCEPT !.caR0 = frame.rot]
                ELSE UNCHANGED <<ca, pc, hist>>
    /\ UNCHANGED <<rocker, la>>

\* Rocker(arb, prod, shock, frame)
NewRocker ==
    /\ pc = "arm"
    /\ \E shock \in ShockPoints, frame \in RockerFrames :
         /\ rocker' = Rocker_init(Arb, RockerRod, shock, frame)
         /\ hist' = [hist EXCEPT !.rkR0 = frame.rot]
    /\ pc' = "links"
    /\ last' = Call("Rocker", None, None, "none", None, None)
    /\ UNCHANGED <<ca, la>>

\* ca.rotate(a, deg) on the control arm alone
CallCaRotate ==
    /\ pc = "links"
    /\ \E arg \in AngleArgs :
         /\ ca' = ControlArm_rotate(ca, arg.a, arg.deg)
         /\ hist' = [hist EXCEPT !.sumC = Turn(@ + Quarter(arg.a, arg.deg))]
         /\ last' = Call("ca.rotate", arg.a, arg.deg, "none", None, Pre)
    /\ UNCHANGED <<pc, rocker, la>>

\* rocker.rotate(a, deg) on the rocker alone
CallRockerRotate ==
    /\ pc = "links"
    /\ \E arg \in AngleArgs :
         /\ rocker' = Rocker_rotate(rocker, arg.a, arg.deg)
         /\ hist' = [hist EXCEPT !.sumR = Turn(@ + Quarter(arg.a, arg.deg))]
         /\ last' = Call("rocker.rotate", arg.a, arg.deg, "none", None, Pre)
    /\ UNCHANGED <<pc, ca, la>>

\* ca.get_p_p()
CallGetPP ==
    /\ pc \in {"links", "asm"}
    /\ \E res \in {get_p_p(ca)} :
         last' = Call("get_p_p", None, None, res.exc, res.val, Pre)
    /\ UNCHANGED <<pc, ca, rocker, la, hist>>

\* LongAccel(ca, r, k, f_prod)
NewLongAccel ==
    /\ pc = "links"
    /\ ca.p_l # None => RootsOnLattice(ca, rocker)
    /\ \E k \in Stiffness, f_prod \in RodForces :
         \E res \in {LongAccel_init(ca, rocker, k, f_prod)} :
             /\ la' = res.la
             /\ last' = Call("LongAccel", f_prod, None, res.exc, None, Pre)
             /\ pc' = IF res.exc = "none" THEN "asm" ELSE "failed"
             /\ hist' = [hist EXCEPT !.prod0 = res.la.prod, !.f_prod = f_prod]
    /\ UNCHANGED <<ca, rocker>>

\* la.rotate_ca(a, deg)
CallRotateCa ==
    /\ pc = "asm"
    /\ \E arg \in AngleArgs :
         \E res \in rotate_ca(ca, rocker, la, arg.a, arg.deg) :
            /\ ca' = res.ca
            /\ rocker' = res.rocker
            /\ last' = Call("rotate_ca", arg.a, arg.deg, res.exc, res.val, Pre)
            /\ hist' = [hist EXCEPT
                          !.sumC = Turn(@ + Quarter(arg.a, arg.deg)),
                          !.sumA = Turn(@ + Quarter(arg.a, arg.deg)),
                          !.sumR = IF res.exc = "none" THEN Turn(@ + res.val) ELSE @,
                          !.sumS = IF res.exc = "none" THEN Turn(@ + res.val) ELSE @,
                          !.rotated = TRUE,
                          !.allOk = @ /\ res.exc = "none"]
    /\ UNCHANGED <<pc, la>>

\* get_forces storing the current shock length in the Shock
CallGetForces_refresh ==
    /\ pc = "asm"
    /\ \E res \in {get_forces(ca, rocker, la)} :
         last' = Call("get_forces", None, None, "none", res, Pre)
    /\ la' = [la EXCEPT !.shock.len = norm(get_s_p(rocker))]
    /\ UNCHANGED <<pc, ca, rocker, hist>>

\* la.get_forces()
CallGetForces ==
    /\ pc = "asm"
    /\ \E res \in {get_forces(ca, rocker, la)} :
         last' = Call("get_forces", None, None, "none", res, Pre)
    /\ UNCHANGED <<pc, ca, rocker, la, hist>>

NextLinks ==
    \/ NewControlArm
    \/ NewRocker
    \/ CallCaRotate
    \/ CallRockerRotate
    \/ CallGetPP

SpecLinks == Init /\ [][NextLinks]_vars

Next ==
    \/ NewControlArm
    \/ NewRocker
    \/ CallGetPP
    \/ NewLongAccel
    \/ CallRotateCa
    \/ CallGetForces

Spec == Init /\ [][Next]_vars


(***************************************************************************)
(* Properties.                                                             *)
(***************************************************************************)
\* the distance between the two rod hardpoints in the parent frame
RodDistance(c, r) == norm(subtract(get_pr_p(r), get_p_p(c).val))

\* the square of the stored rod length, an integer
RodLength2(l) ==
    CHOOSE n \in {IF sq = Zero THEN 0 ELSE (CHOOSE u \in sq.t : TRUE).q.n
                  : sq \in {Mul(l.prod, l.prod)}} : TRUE

\* the sign ControlArm.rotate gives the angle
RotSign(side) == IF side = "r" THEN -1 ELSE 1

\* the sign of a control arm accepted as the right side / the left side
SideSign(side) == IF lower(side) = "r" THEN -1 ELSE 1

\* C1: after any sequence of rotate_ca calls that all returned, the distance
\* between the two rod hardpoints equals the rod length stored at
\* construction, and the stored rod length never changes.
C1_RodLengthKept ==
    pc = "asm" =>
        /\ la.prod = hist.prod0
        /\ hist.allOk => RodDistance(ca, rocker) = la.prod

C1_Witness ==
    /\ pc = "asm"
    /\ hist.allOk
    /\ last.op = "rotate_ca"
    /\ last.ret # 0
    /\ ca.frame.rot # hist.caR0

C3_ForcesAtConstruction ==
    (pc = "asm" /\ ~hist.rotated /\ last.op = "get_forces") =>
        \A m \in {MomentArms(ca, rocker)} :
            (/\ IsFinite(m.prod) /\ m.prod # Zero
             /\ IsFinite(m.shock) /\ m.shock # Zero) =>
                /\ last.ret[2] = FromInt(hist.f_prod)
                /\ last.ret[1] = la.shock.force

C3_Witness ==
    /\ pc = "asm"
    /\ ~hist.rotated
    /\ last.op = "get_forces"
    /\ \A m \in {MomentArms(ca, rocker)} :
          /\ IsFinite(m.prod) /\ m.prod # Zero
          /\ IsFinite(m.shock) /\ m.shock # Zero
    /\ la.shock.force # Zero

\* C4: a control arm accepted as the right side ('r' or 'R') has its
\* orientation composed with the x-rotation by -a, one accepted as the left
\* side with the rotation by +a.
C4_MirroredBySide ==
    pc = "links" =>
        ca.frame.rot = MatMul(hist.caR0,
                              make_rotation(SideSign(ca.side) * hist.sumC, "x", FALSE))

\* C5: on a control arm without a rod hardpoint get_p_p raises ValueError and
\* changes nothing, and LongAccel's constructor fails with that error before
\* shock, rod length or side is assigned.
C5_MissingRodHardpoint ==
    /\ (pc \in {"links", "asm"} /\ last.op = "get_p_p" /\ ca.p_l = None) =>
          /\ last.exc = "ValueError"
          /\ ca = last.pre.ca
    /\ pc = "asm" => ca.p_l # None
    /\ pc = "failed" =>
          /\ ca.p_l = None
          /\ last.op = "LongAccel"
          /\ last.exc = "ValueError"
          /\ la.attrs \cap {"shock", "prod", "side"} = {}
          /\ ca = last.pre.ca

C5_Witness ==
    /\ pc = "failed"
    /\ ca.p_l = None
    /\ la.attrs = {"ca", "rocker"}

\* C6: a zero moment arm ends the operation in an error; no infinite or NaN
\* force is stored in the Shock or returned by get_forces.
C6_SingularIsError ==
    /\ pc = "asm" =>
          /\ IsFinite(la.shock.force)
          /\ ~hist.rotated => MomentArms(ca, rocker).shock # Zero
    /\ (pc = "asm" /\ last.op = "get_forces" /\ last.exc = "none") =>
          /\ MomentArms(ca, rocker).prod # Zero
          /\ IsFinite(last.ret[1])
          /\ IsFinite(last.ret[2])

\* C7: each rotate multiplies the new local rotation on the right of the
\* link's orientation, so the orientation is the first one times the
\* rotation by the angles' sum, and rotate(-a) after rotate(a) restores the
\* orientation and every hardpoint's position.
C7_RightComposition ==
    pc = "links" =>
        /\ ca.frame.rot = MatMul(hist.caR0,
                                 make_rotation(RotSign(ca.side) * hist.sumC, "x", FALSE))
        /\ rocker.frame.rot = MatMul(hist.rkR0,
                                     make_rotation(hist.sumR, "z", FALSE))
        /\ last.op = "ca.rotate" =>
              \A back \in {ControlArm_rotate(ca, -last.a, last.deg)} :
                 /\ back.frame.rot = last.pre.ca.frame.rot
                 /\ get_r_p(back) = get_r_p(last.pre.ca)
                 /\ get_u_p(back) = get_u_p(last.pre.ca)
        /\ last.op = "rocker.rotate" =>
              \A back \in {Rocker_rotate(rocker, -last.a, last.deg)} :
                 /\ back.frame.rot = last.pre.rocker.frame.rot
                 /\ get_pr_p(back) = get_pr_p(last.pre.rocker)
                 /\ get_s_p(back) = get_s_p(last.pre.rocker)
                 /\ get_a_p(back) = get_a_p(last.pre.rocker)

C7_Witness ==
    /\ pc = "links"
    /\ last.op = "ca.rotate"
    /\ hist.caR0 # Identity
    /\ hist.sumC = 1
    /\ hist.sumR = 3
    /\ ca.frame.rot # last.pre.ca.frame.rot

\* C8: get_forces changes neither link, nor the Shock, the rod length or the
\* side, and two calls in a row return the same pair.
C8_GetForcesPure ==
    [][last'.op = "get_forces" =>
          /\ ca' = ca
          /\ rocker' = rocker
          /\ la' = la
          /\ last.op = "get_forces" => last'.ret = last.ret]_vars

C8_Witness ==
    /\ pc = "asm"
    /\ last.op = "get_forces"
    /\ hist.rotated
    /\ rocker.frame.rot # hist.rkR0
    /\ IsFinite(last.ret[2])

\* C9: after successful calls rotate_ca(a1..an) returning s1..sn the rocker's
\* orientation is its first one times the z-rotation by s1+...+sn and the
\* control arm's its first one times the x-rotation by the signed sum of the
\* ai; rotate_ca(0) in a state that satisfies the rod-length constraint
\* returns 0 and changes neither.
C9_Incremental ==
    pc = "asm" =>
        /\ hist.allOk =>
              /\ rocker.frame.rot = MatMul(hist.rkR0,
                                           make_rotation(hist.sumS, "z", FALSE))
              /\ ca.frame.rot = MatMul(hist.caR0,
                     make_rotation(RotSign(ca.side) * hist.sumA, "x", FALSE))
        /\ (/\ last.op = "rotate_ca"
            /\ last.a = 0
            /\ RodDistance(last.pre.ca, last.pre.rocker) = la.prod) =>
              /\ last.exc = "none"
              /\ last.ret = 0
              /\ ca = last.pre.ca
              /\ rocker = last.pre.rocker

C9_Witness ==
    /\ pc = "asm"
    /\ hist.allOk
    /\ last.op = "rotate_ca"
    /\ last.ret # 0
    /\ last.pre.rocker.frame.rot # hist.rkR0
    /\ rocker.frame.rot # hist.rkR0

\* C10: when rotate_ca's solve raises, the control arm keeps its new
\* rotation, the rocker and the stored rod length are as before, and the
\* rod-hardpoint distance differs from the stored rod length.
C10_FailureKeepsArmRotated ==
    (pc = "asm" /\ last.op = "rotate_ca" /\ last.exc # "none") =>
        /\ ca = ControlArm_rotate(last.pre.ca, last.a, last.deg)
        /\ rocker = last.pre.rocker
        /\ la.prod = hist.prod0
        /\ RodDistance(ca, rocker) # la.prod

C10_Witness ==
    /\ pc = "asm"
    /\ last.op = "rotate_ca"
    /\ last.exc = "ValueError"
    /\ ca.frame.rot # last.pre.ca.frame.rot
    /\ RodDistance(last.pre.ca, last.pre.rocker) = la.prod

====
